---- MODULE Spec2Model ----
(***************************************************************************)
(* Order-to-cash and fiscal ledger engine of the retail back office:       *)
(* the Sequelize models Venda, Produto, NotaFiscal and ContaReceber and    *)
(* their instance methods, as state machines.                              *)
(*                                                                         *)
(* Money and stock quantities are integers (cents, thousandths); the       *)
(* parseFloat calls of the source are the identity on them.  A nullable    *)
(* column is a sequence of length at most one: <<>> is null, <<x>> is x.   *)
(* A thrown Error is the err field of an operation's result, holding the   *)
(* message the source throws; "none" is a normal return.                   *)
(***************************************************************************)
EXTENDS Integers, Sequences, FiniteSets, TLC

VARIABLES
    now,          \* the clock read by new Date()
    venda,        \* a Venda instance: status, data_entrega_realizada
    vendaRes,     \* the last atualizarStatus call: argument, instance before, error
    produto,      \* a Produto instance: estoque_atual, status
    produtoRes,   \* the last atualizarEstoque call
    nota,         \* a NotaFiscal instance: status, justificativa_cancelamento
    notaRes,      \* the last cancelar call
    conta,        \* a ContaReceber instance
    contaRes,     \* the last registrarRecebimento call
    row,          \* the persisted conta_receber row shared by concurrent requests
    inst,         \* per request: the instance it loaded from the row
    pc,           \* per request: its position
    req,          \* per request: the amount it asked to settle
    rowProduto,   \* the persisted produto row shared by concurrent requests
    instProduto,  \* per request: the Produto instance it loaded
    pcProduto,    \* per request: its position
    reqProduto,   \* per request: the quantity it asked to debit
    estoqueInicial, \* the stock of the row before the requests
    itens,        \* the ItemVenda rows of the sale: produto_id, quantidade
    estoques,     \* the Produto rows the items reference, by id
    emissao,      \* a NotaFiscal being issued and its issuer (empresa)
    chaveRes,     \* the last gerarChaveAcesso call: control number drawn, key returned
    notas,        \* the nota_fiscal table, in insertion order
    emitir,       \* the create requests for a NotaFiscal, each with its position
    totais,       \* the monetary columns of a sale, in cents (percentages in percent)
    totaisRes,    \* the last operation on them
    item,         \* an ItemVenda instance
    itemRes,      \* the last calcularTotais call on it and what it returned
    jurosRes,     \* the last calcularJurosMulta call: arguments, instance before, value returned
    cancelavelRes, \* the last podeSerCancelada call: status of the instance, value returned
    categorias,   \* the categoria table, by id
    categoriaRes, \* whether the last create or update of a category returned
    criadas,      \* the entries created by gerarProximaRecorrencia, in order
    recRes        \* the last gerarProximaRecorrencia call: instance before, error

vars == <<now, venda, vendaRes, produto, produtoRes, nota, notaRes, conta,
          contaRes, row, inst, pc, req, rowProduto, instProduto, pcProduto,
          reqProduto, estoqueInicial, itens, estoques, emissao, chaveRes,
          notas, emitir, totais, totaisRes, item, itemRes, jurosRes,
          cancelavelRes, categorias, categoriaRes, criadas, recRes>>

Null == <<>>
Some(x) == <<x>>

NoError == "none"

(***************************************************************************)
(* Bounds of the model.                                                    *)
(***************************************************************************)
MaxTime == 2
MaxStock == 3
MaxQty == 2
MaxOriginal == 3
MaxValor == 3
NumRequests == 2

(***************************************************************************)
(* Venda: the sale status machine.                                         *)
(***************************************************************************)
VendaStatus ==
    {"pendente", "aprovada", "em_separacao", "faturada", "em_transporte",
     "entregue", "cancelada"}

\* What a caller may pass as novoStatus: any status, or a string that is none.
NovoStatus == VendaStatus \cup {"devolvida"}

\* The table with pendente: [..., 'entregue'], a shortcut to delivery.
statusValidosAtalho(status) ==
    CASE status = "pendente" -> {"aprovada", "cancelada", "entregue"}
      [] status = "aprovada" -> {"em_separacao", "cancelada"}
      [] status = "em_separacao" -> {"faturada", "cancelada"}
      [] status = "faturada" -> {"em_transporte", "entregue", "cancelada"}
      [] status = "em_transporte" -> {"entregue", "cancelada"}
      [] status = "entregue" -> {}
      [] status = "cancelada" -> {}

\* The table with cancelada: ['pendente'], a cancelled sale reopened.
statusValidosReabre(status) ==
    CASE status = "pendente" -> {"aprovada", "cancelada"}
      [] status = "aprovada" -> {"em_separacao", "cancelada"}
      [] status = "em_separacao" -> {"faturada", "cancelada"}
      [] status = "faturada" -> {"em_transporte", "entregue", "cancelada"}
      [] status = "em_transporte" -> {"entregue", "cancelada"}
      [] status = "entregue" -> {}
      [] status = "cancelada" -> {"pendente"}

statusValidos(status) ==
    CASE status = "pendente" -> {"aprovada", "cancelada"}
      [] status = "aprovada" -> {"em_separacao", "cancelada"}
      [] status = "em_separacao" -> {"faturada", "cancelada"}
      [] status = "faturada" -> {"em_transporte", "entregue", "cancelada"}
      [] status = "em_transporte" -> {"entregue", "cancelada"}
      [] status = "entregue" -> {}
      [] status = "cancelada" -> {}

ErrStatus == "Nao e possivel alterar o status"

\* atualizarStatus stamping the delivery date when the sale ships as well.
atualizarStatusCarimbaTransporte(v, novoStatus, t) ==
    IF novoStatus \notin statusValidos(v.status)
    THEN [err |-> ErrStatus, venda |-> v]
    ELSE [err |-> NoError,
          venda |-> [status |-> novoStatus,
                     data_entrega_realizada |->
                         IF novoStatus \in {"em_transporte", "entregue"}
                         THEN Some(t)
                         ELSE v.data_entrega_realizada]]

\* Venda.prototype.atualizarStatus on instance v at time t.
atualizarStatus(v, novoStatus, t) ==
    IF novoStatus \notin statusValidos(v.status)
    THEN [err |-> ErrStatus, venda |-> v]
    ELSE [err |-> NoError,
          venda |-> [status |-> novoStatus,
                     data_entrega_realizada |->
                         IF novoStatus = "entregue" THEN Some(t)
                         ELSE v.data_entrega_realizada]]

\* The check with statusNaoCancelaveis = ['cancelada'] only.
podeSerCanceladaSoCancelada(v) == v.status \notin {"cancelada"}

\* Venda.prototype.podeSerCancelada on instance v.
podeSerCancelada(v) == v.status \notin {"entregue", "cancelada"}

CancelavelIdle ==
    cancelavelRes = [called |-> FALSE, status |-> "pendente", ret |-> TRUE]

PodeSerCancelada ==
    /\ cancelavelRes' = [called |-> TRUE, status |-> venda.status,
                         ret |-> podeSerCancelada(venda)]
    /\ UNCHANGED <<now, venda, vendaRes, produto, produtoRes, nota, notaRes,
                   conta, contaRes, row, inst, pc, req, rowProduto,
                   instProduto, pcProduto, reqProduto, estoqueInicial, itens,
                   estoques, emissao, chaveRes, notas, emitir, totais,
                   totaisRes, item, itemRes, jurosRes, categorias,
                   categoriaRes, criadas, recRes>>

\* Venda.create with the column defaults.
VendaInit ==
    /\ venda = [status |-> "pendente", data_entrega_realizada |-> Null]
    /\ vendaRes = [called |-> FALSE, novoStatus |-> "pendente", old |-> venda,
                   err |-> NoError]

VendaIdle == VendaInit

AtualizarStatus ==
    \E novoStatus \in NovoStatus :
        LET r == atualizarStatus(venda, novoStatus, now) IN
        /\ venda' = r.venda
        /\ vendaRes' = [called |-> TRUE, novoStatus |-> novoStatus,
                        old |-> venda, err |-> r.err]
        /\ UNCHANGED <<now, produto, produtoRes, nota, notaRes, conta,
                       contaRes, row, inst, pc, req, rowProduto, instProduto,
                       pcProduto, reqProduto, estoqueInicial, itens, estoques,
                       emissao, chaveRes, notas, emitir, totais, totaisRes,
                       item, itemRes, jurosRes, cancelavelRes, categorias,
                       categoriaRes, criadas, recRes>>

Tick ==
    /\ now < MaxTime
    /\ now' = now + 1
    /\ UNCHANGED <<venda, vendaRes, produto, produtoRes, nota, notaRes, conta,
                   contaRes, row, inst, pc, req, rowProduto, instProduto,
                   pcProduto, reqProduto, estoqueInicial, itens, estoques,
                   emissao, chaveRes, notas, emitir, totais, totaisRes, item,
                   itemRes, jurosRes, cancelavelRes, categorias, categoriaRes,
                   criadas, recRes>>

(***************************************************************************)
(* Produto: stock movements.                                               *)
(***************************************************************************)
ProdutoStatus == {"ativo", "inativo", "em_promocao", "esgotado"}

\* What a caller may pass as tipo: the two movements, or a string that is neither.
Tipos == {"entrada", "saida", "ajuste"}

\* What a caller may pass as quantidade: the source validates no sign.
Quantidades == (0 - 1) .. MaxQty

ErrEstoque == "Estoque insuficiente"
ErrTipo == "Tipo de operacao invalido"

\* The status derivation with the limit estoque_atual < 0 instead of <= 0.
statusPorEstoqueLimiteErrado(estoque, status) ==
    IF estoque < 0 THEN "esgotado"
    ELSE IF status = "esgotado" THEN "ativo"
    ELSE status

\* The status derivation making every product in stock ativo.
statusPorEstoqueReativa(estoque, status) ==
    IF estoque <= 0 THEN "esgotado" ELSE "ativo"

\* The status derivation of atualizarEstoque on the new balance.
statusPorEstoque(estoque, status) ==
    IF estoque <= 0 THEN "esgotado"
    ELSE IF status = "esgotado" THEN "ativo"
    ELSE status

\* The assignments of atualizarEstoque once the movement is accepted.
movimenta(p, novo) ==
    [err |-> NoError,
     produto |-> [estoque_atual |-> novo,
                  status |-> statusPorEstoque(novo, p.status)]]

\* atualizarEstoque debiting on 'saida' without comparing with the balance.
atualizarEstoqueSemCheque(p, quantidade, tipo) ==
    IF tipo = "entrada"
    THEN movimenta(p, p.estoque_atual + quantidade)
    ELSE IF tipo = "saida"
    THEN movimenta(p, p.estoque_atual - quantidade)
    ELSE [err |-> ErrTipo, produto |-> p]

\* Produto.prototype.atualizarEstoque on instance p.
atualizarEstoque(p, quantidade, tipo) ==
    IF tipo = "entrada"
    THEN movimenta(p, p.estoque_atual + quantidade)
    ELSE IF tipo = "saida"
    THEN IF p.estoque_atual < quantidade
         THEN [err |-> ErrEstoque, produto |-> p]
         ELSE movimenta(p, p.estoque_atual - quantidade)
    ELSE [err |-> ErrTipo, produto |-> p]

\* Produto.create: any stock level from 0 and any status (neither is validated).
ProdutoInit ==
    /\ produto \in [estoque_atual : 0 .. MaxStock, status : ProdutoStatus]
    /\ produtoRes = [called |-> FALSE, quantidade |-> 0, tipo |-> "entrada",
                     old |-> produto, err |-> NoError,
                     statusAntes |-> produto.status]

ProdutoIdle ==
    /\ produto = [estoque_atual |-> 0, status |-> "ativo"]
    /\ produtoRes = [called |-> FALSE, quantidade |-> 0, tipo |-> "entrada",
                     old |-> produto, err |-> NoError,
                     statusAntes |-> produto.status]

AtualizarEstoque ==
    \E quantidade \in Quantidades, tipo \in Tipos :
        LET r == atualizarEstoque(produto, quantidade, tipo) IN
        /\ produto.estoque_atual \in (0 - MaxStock) .. MaxStock
        /\ produto' = r.produto
        /\ produtoRes' = [called |-> TRUE, quantidade |-> quantidade,
                          tipo |-> tipo, old |-> produto, err |-> r.err,
                          statusAntes |-> produtoRes.old.status]
        /\ UNCHANGED <<now, venda, vendaRes, nota, notaRes, conta, contaRes,
                       row, inst, pc, req, rowProduto, instProduto, pcProduto,
                       reqProduto, estoqueInicial, itens, estoques, emissao,
                       chaveRes, notas, emitir, totais, totaisRes, item,
                       itemRes, jurosRes, cancelavelRes, categorias,
                       categoriaRes, criadas, recRes>>

(***************************************************************************)
(* NotaFiscal: cancellation.                                               *)
(***************************************************************************)
NotaStatus ==
    {"em_digitacao", "pendente", "processando", "autorizada", "cancelada",
     "rejeitada", "inutilizada"}

\* What a caller may pass as justificativa: nothing (undefined or null), or a
\* string of 0, 4, 14, 15, 15, 16, 25 and 29 characters.
Justificativas ==
    {Null} \cup
    { Some(s) : s \in {"", "erro", "cancelar agora", "erro de digitar",
                       "cliente desiste", "cliente desistiu",
                       "pedido duplicado no caixa",
                       "nota emitida com valor errado"} }

MinJustificativa == 15

ErrNotaStatus == "Nota fiscal nao pode ser cancelada no status atual"
ErrJustificativa == "Justificativa deve ter no minimo 15 caracteres"

\* !justificativa || justificativa.length < 15
justificativaCurta(justificativa) ==
    \/ justificativa = Null
    \/ Len(justificativa[1]) = 0
    \/ Len(justificativa[1]) < MinJustificativa

\* cancelar testing the justification before the status.
cancelarJustificativaPrimeiro(n, justificativa) ==
    IF justificativaCurta(justificativa)
    THEN [err |-> ErrJustificativa, nota |-> n]
    ELSE IF n.status \notin {"autorizada"}
    THEN [err |-> ErrNotaStatus, nota |-> n]
    ELSE [err |-> NoError,
          nota |-> [status |-> "cancelada",
                    justificativa_cancelamento |-> justificativa]]

\* cancelar accepting a cancelled document again.
cancelarDeNovo(n, justificativa) ==
    IF n.status \notin {"autorizada", "cancelada"}
    THEN [err |-> ErrNotaStatus, nota |-> n]
    ELSE IF justificativaCurta(justificativa)
    THEN [err |-> ErrJustificativa, nota |-> n]
    ELSE [err |-> NoError,
          nota |-> [status |-> "cancelada",
                    justificativa_cancelamento |-> justificativa]]

\* NotaFiscal.prototype.cancelar on instance n.
cancelar(n, justificativa) ==
    IF n.status \notin {"autorizada"}
    THEN [err |-> ErrNotaStatus, nota |-> n]
    ELSE IF justificativaCurta(justificativa)
    THEN [err |-> ErrJustificativa, nota |-> n]
    ELSE [err |-> NoError,
          nota |-> [status |-> "cancelada",
                    justificativa_cancelamento |-> justificativa]]

\* A document in any status of the column's ENUM, no justification stored.
NotaInit ==
    /\ nota \in [status : NotaStatus, justificativa_cancelamento : {Null}]
    /\ notaRes = [called |-> FALSE, justificativa |-> Null, old |-> nota,
                  err |-> NoError]

NotaIdle ==
    /\ nota = [status |-> "em_digitacao", justificativa_cancelamento |-> Null]
    /\ notaRes = [called |-> FALSE, justificativa |-> Null, old |-> nota,
                  err |-> NoError]

Cancelar ==
    \E justificativa \in Justificativas :
        LET r == cancelar(nota, justificativa) IN
        /\ nota' = r.nota
        /\ notaRes' = [called |-> TRUE, justificativa |-> justificativa,
                       old |-> nota, err |-> r.err]
        /\ UNCHANGED <<now, venda, vendaRes, produto, produtoRes, conta,
                       contaRes, row, inst, pc, req, rowProduto, instProduto,
                       pcProduto, reqProduto, estoqueInicial, itens, estoques,
                       emissao, chaveRes, notas, emitir, totais, totaisRes,
                       item, itemRes, jurosRes, cancelavelRes, categorias,
                       categoriaRes, criadas, recRes>>

(***************************************************************************)
(* ContaReceber: settlement of a receivable.                               *)
(***************************************************************************)
ContaStatus ==
    {"em_aberto", "parcialmente_recebido", "recebido", "cancelado", "vencido",
     "protestado"}

\* Amounts are whole multiples of 1/Unidade of the currency unit, so that the
\* penalty (2%) and the daily interest (0.033%) of an amount of whole units are
\* whole; the rounding of binary floating point is not modelled.
Unidade == 100000

\* The instants of a day: a DATEONLY value d is the instant d * PorDia (its
\* midnight), `now` and every Date argument are instants.
PorDia == 2

Instante(data) == data * PorDia

\* What a caller may pass as valorRecebido: an amount from 0 (the source does
\* not require it to be positive), in whole units, and one amount that is not
\* a whole number of units (1.02020).
Valores == {k * Unidade : k \in 0 .. MaxValor} \cup {Unidade + 2020}

ErrRecebimento == "Valor do recebimento maior que o valor restante"

\* valor_original + valor_juros + valor_multa - valor_desconto - valor_recebido
restante(c) ==
    (c.valor_original + c.valor_juros + c.valor_multa - c.valor_desconto)
        - c.valor_recebido

\* ContaReceber.prototype.calcularValorRestante: stores the value on the instance.
calcularValorRestante(c) == [c EXCEPT !.valor_restante = restante(c)]

\* The status update without the valor_restante === 0 branch.
statusSemQuitacao(c) ==
    IF c.valor_recebido > 0 THEN "parcialmente_recebido" ELSE c.status

\* The status update of registrarRecebimento after the remaining is recomputed.
statusAposRecebimento(c) ==
    IF c.valor_restante = 0 THEN "recebido"
    ELSE IF c.valor_recebido > 0 THEN "parcialmente_recebido"
    ELSE c.status

\* ContaReceber.prototype.registrarRecebimento on instance c.
registrarRecebimento(c, valorRecebido, dataRecebimento) ==
    LET c1 == calcularValorRestante(c) IN
    IF valorRecebido > c1.valor_restante
    THEN [err |-> ErrRecebimento, conta |-> c1]
    ELSE LET c2 == [c1 EXCEPT !.valor_recebido = @ + valorRecebido,
                              !.data_recebimento = Some(dataRecebimento)]
             c3 == calcularValorRestante(c2)
         IN [err |-> NoError,
             conta |-> [c3 EXCEPT !.status = statusAposRecebimento(c3)]]

\* ContaReceber.create: valor_original > 0, a discount no larger than it, the
\* other amounts at their default 0; valor_restante at its default 0 or set by
\* the creator to the amount owed.
NovaConta(original, desconto, restanteInformado, vencimento) ==
    [valor_original |-> original, valor_juros |-> 0, valor_multa |-> 0,
     valor_desconto |-> desconto, valor_recebido |-> 0,
     valor_restante |-> restanteInformado, status |-> "em_aberto",
     data_recebimento |-> Null, data_vencimento |-> vencimento,
     recorrente |-> FALSE, periodicidade |-> Null]

\* The due dates (days).
Vencimentos == {0, 1}

ContasNovas ==
    UNION { { NovaConta(original * Unidade, desconto * Unidade, r, vencimento) :
                  r \in {0, (original - desconto) * Unidade},
                  vencimento \in Vencimentos } :
            <<original, desconto>> \in (1 .. MaxOriginal) \X (0 .. 1) }

ContaInit ==
    /\ conta \in { c \in ContasNovas : c.valor_desconto < c.valor_original }
    /\ contaRes = [called |-> FALSE, valorRecebido |-> 0, old |-> conta,
                   err |-> NoError]

ContaIdle ==
    /\ conta = NovaConta(Unidade, 0, 0, 0)
    /\ contaRes = [called |-> FALSE, valorRecebido |-> 0, old |-> conta,
                   err |-> NoError]

RegistrarRecebimento ==
    \E valorRecebido \in Valores :
        LET r == registrarRecebimento(conta, valorRecebido, now) IN
        /\ conta' = r.conta
        /\ contaRes' = [called |-> TRUE, valorRecebido |-> valorRecebido,
                        old |-> conta, err |-> r.err]
        /\ UNCHANGED <<now, venda, vendaRes, produto, produtoRes, nota,
                       notaRes, row, inst, pc, req, rowProduto, instProduto,
                       pcProduto, reqProduto, estoqueInicial, itens, estoques,
                       emissao, chaveRes, notas, emitir, totais, totaisRes,
                       item, itemRes, jurosRes, cancelavelRes, categorias,
                       categoriaRes, criadas, recRes>>

(***************************************************************************)
(* Concurrent requests settling the same receivable.  Each request loads   *)
(* its own instance of the row (findByPk), runs registrarRecebimento on it *)
(* up to the await of save(), and the UPDATE of save() lands later.  No    *)
(* transaction or lock is taken anywhere in the source.                    *)
(***************************************************************************)
Requests == 1 .. NumRequests

\* The columns registrarRecebimento assigns, which save() writes to the row.
saveRecebimento(r, c) ==
    [r EXCEPT !.valor_recebido = c.valor_recebido,
              !.data_recebimento = c.data_recebimento,
              !.valor_restante = c.valor_restante,
              !.status = c.status]

ConcInit ==
    /\ row \in { c \in ContasNovas : /\ c.valor_desconto = 0 /\ c.valor_restante # 0
                                     /\ c.data_vencimento = 0 }
    /\ inst = [p \in Requests |-> row]
    /\ pc = [p \in Requests |-> "start"]
    /\ req = [p \in Requests |-> 0]

ConcIdle ==
    /\ row = NovaConta(Unidade, 0, 0, 0)
    /\ inst = [p \in Requests |-> row]
    /\ pc = [p \in Requests |-> "start"]
    /\ req = [p \in Requests |-> 0]

\* The request handler's findByPk.
Load(p) ==
    /\ pc[p] = "start"
    /\ inst' = [inst EXCEPT ![p] = row]
    /\ pc' = [pc EXCEPT ![p] = "loaded"]
    /\ UNCHANGED <<now, venda, vendaRes, produto, produtoRes, nota, notaRes,
                   conta, contaRes, row, req, rowProduto, instProduto,
                   pcProduto, reqProduto, estoqueInicial, itens, estoques,
                   emissao, chaveRes, notas, emitir, totais, totaisRes, item,
                   itemRes, jurosRes, cancelavelRes, categorias, categoriaRes,
                   criadas, recRes>>

\* registrarRecebimento up to its await: throws, or leaves the save pending.
Registrar(p) ==
    /\ pc[p] = "loaded"
    /\ \E valorRecebido \in Valores \ {0} :
        LET r == registrarRecebimento(inst[p], valorRecebido, now) IN
        /\ inst' = [inst EXCEPT ![p] = r.conta]
        /\ req' = [req EXCEPT ![p] = valorRecebido]
        /\ pc' = [pc EXCEPT ![p] = IF r.err = NoError THEN "saving"
                                   ELSE "rejected"]
    /\ UNCHANGED <<now, venda, vendaRes, produto, produtoRes, nota, notaRes,
                   conta, contaRes, row, rowProduto, instProduto, pcProduto,
                   reqProduto, estoqueInicial, itens, estoques, emissao,
                   chaveRes, notas, emitir, totais, totaisRes, item, itemRes,
                   jurosRes, cancelavelRes, categorias, categoriaRes, criadas,
                   recRes>>

\* await this.save(): the UPDATE reaches the row and the call returns.
Save(p) ==
    /\ pc[p] = "saving"
    /\ row' = saveRecebimento(row, inst[p])
    /\ pc' = [pc EXCEPT ![p] = "accepted"]
    /\ UNCHANGED <<now, venda, vendaRes, produto, produtoRes, nota, notaRes,
                   conta, contaRes, inst, req, rowProduto, instProduto,
                   pcProduto, reqProduto, estoqueInicial, itens, estoques,
                   emissao, chaveRes, notas, emitir, totais, totaisRes, item,
                   itemRes, jurosRes, cancelavelRes, categorias, categoriaRes,
                   criadas, recRes>>

(***************************************************************************)
(* Concurrent requests debiting the same product, as for the receivable:   *)
(* each loads its own instance of the row, runs atualizarEstoque on it up  *)
(* to the await of save(), and the UPDATE lands later.                     *)
(***************************************************************************)
\* The columns atualizarEstoque assigns, which save() writes to the row.
saveEstoque(r, p) ==
    [r EXCEPT !.estoque_atual = p.estoque_atual, !.status = p.status]

ConcProdutoInit ==
    /\ rowProduto \in [estoque_atual : 1 .. MaxStock, status : {"ativo"}]
    /\ instProduto = [q \in Requests |-> rowProduto]
    /\ pcProduto = [q \in Requests |-> "start"]
    /\ reqProduto = [q \in Requests |-> 0]
    /\ estoqueInicial = rowProduto.estoque_atual

ConcProdutoIdle ==
    /\ rowProduto = [estoque_atual |-> 0, status |-> "ativo"]
    /\ instProduto = [q \in Requests |-> rowProduto]
    /\ pcProduto = [q \in Requests |-> "start"]
    /\ reqProduto = [q \in Requests |-> 0]
    /\ estoqueInicial = 0

\* The request handler's findByPk.
LoadProduto(q) ==
    /\ pcProduto[q] = "start"
    /\ instProduto' = [instProduto EXCEPT ![q] = rowProduto]
    /\ pcProduto' = [pcProduto EXCEPT ![q] = "loaded"]
    /\ UNCHANGED <<now, venda, vendaRes, produto, produtoRes, nota, notaRes,
                   conta, contaRes, row, inst, pc, req, rowProduto,
                   reqProduto, estoqueInicial, itens, estoques, emissao,
                   chaveRes, notas, emitir, totais, totaisRes, item, itemRes,
                   jurosRes, cancelavelRes, categorias, categoriaRes, criadas,
                   recRes>>

\* atualizarEstoque(quantidade, 'saida') up to its await: throws, or leaves
\* the save pending.
Debitar(q) ==
    /\ pcProduto[q] = "loaded"
    /\ \E quantidade \in 1 .. MaxQty :
        LET r == atualizarEstoque(instProduto[q], quantidade, "saida") IN
        /\ instProduto' = [instProduto EXCEPT ![q] = r.produto]
        /\ reqProduto' = [reqProduto EXCEPT ![q] = quantidade]
        /\ pcProduto' = [pcProduto EXCEPT ![q] =
                             IF r.err = NoError THEN "saving" ELSE "rejected"]
    /\ UNCHANGED <<now, venda, vendaRes, produto, produtoRes, nota, notaRes,
                   conta, contaRes, row, inst, pc, req, rowProduto,
                   estoqueInicial, itens, estoques, emissao, chaveRes, notas,
                   emitir, totais, totaisRes, item, itemRes, jurosRes,
                   cancelavelRes, categorias, categoriaRes, criadas, recRes>>

\* await this.save(): the UPDATE reaches the row and the call returns.
SaveProduto(q) ==
    /\ pcProduto[q] = "saving"
    /\ rowProduto' = saveEstoque(rowProduto, instProduto[q])
    /\ pcProduto' = [pcProduto EXCEPT ![q] = "accepted"]
    /\ UNCHANGED <<now, venda, vendaRes, produto, produtoRes, nota, notaRes,
                   conta, contaRes, row, inst, pc, req, instProduto,
                   reqProduto, estoqueInicial, itens, estoques, emissao,
                   chaveRes, notas, emitir, totais, totaisRes, item, itemRes,
                   jurosRes, cancelavelRes, categorias, categoriaRes, criadas,
                   recRes>>

(***************************************************************************)
(* The line items of the sale and the products they reference.  Neither    *)
(* Venda.prototype.atualizarStatus nor a hook of the Venda model reads or  *)
(* writes them: the actions of the sale leave them unchanged.              *)
(***************************************************************************)
ProdutoIds == 1 .. 2

\* One item per product, of a positive quantity; every product in stock or not.
ItensInit ==
    /\ itens \in [ProdutoIds -> [produto_id : ProdutoIds, quantidade : 1 .. MaxQty]]
    /\ \A i \in ProdutoIds : itens[i].produto_id = i
    /\ estoques \in [ProdutoIds -> [estoque_atual : 0 .. MaxStock,
                                    status : {"ativo", "esgotado"}]]
    /\ \A id \in ProdutoIds :
           estoques[id].status = statusPorEstoque(estoques[id].estoque_atual, "ativo")

ItensIdle ==
    /\ itens = [i \in ProdutoIds |-> [produto_id |-> i, quantidade |-> 1]]
    /\ estoques = [id \in ProdutoIds |-> [estoque_atual |-> 0, status |-> "esgotado"]]

(***************************************************************************)
(* NotaFiscal: access key generation.  A string of decimal digits is a     *)
(* sequence of the numbers 0..9.                                           *)
(***************************************************************************)
RECURSIVE toString(_)
\* Number.prototype.toString of an integer n >= 0: its decimal digits.
toString(n) == IF n < 10 THEN <<n>> ELSE toString(n \div 10) \o <<n % 10>>

RECURSIVE Valor(_)
\* The number a string of digits converts to (parseInt, ToNumber).
Valor(s) == IF s = <<>> THEN 0 ELSE 10 * Valor(SubSeq(s, 1, Len(s) - 1)) + s[Len(s)]

\* String.prototype.padStart(width, '0'): pads on the left, never truncates.
padStart(s, width) ==
    IF Len(s) >= width THEN s ELSE [i \in 1 .. (width - Len(s)) |-> 0] \o s

\* toISOString().slice(2,4) + toISOString().slice(5,7) of a date with a
\* four-digit year: the last two digits of the year, then the month.
anoMes(data_emissao) ==
    padStart(toString(data_emissao.ano % 100), 2)
        \o padStart(toString(data_emissao.mes), 2)

\* this.tipo_documento === 'nfce' ? '65' : '55'
modelo(tipo_documento) == IF tipo_documento = "nfce" THEN <<6, 5>> ELSE <<5, 5>>

\* const baseChave = `${uf}${data}${cnpj}${modelo}${serie}${numero}${tpEmis}${cNF}`
baseChave(e, cNF) ==
    padStart(toString(e.codigo_uf), 2) \o anoMes(e.data_emissao)
        \o padStart(e.cnpj, 14) \o modelo(e.tipo_documento)
        \o padStart(toString(e.serie), 3) \o padStart(toString(e.numero), 9)
        \o <<1>> \o padStart(toString(cNF), 8)

\* The weights cycling 2..8, the reset one step early.
proximoPesoAte8(peso) == IF peso = 8 THEN 2 ELSE peso + 1

\* peso = peso === 9 ? 2 : peso + 1
proximoPeso(peso) == IF peso = 9 THEN 2 ELSE peso + 1

RECURSIVE somaDe(_, _, _)
\* The loop for (i = length - 1; i >= 0; i--) soma += digit * peso, from
\* index i (1-based) down, with the current peso.
somaDe(base, i, peso) ==
    IF i = 0 THEN 0
    ELSE base[i] * peso + somaDe(base, i - 1, proximoPeso(peso))

\* dv = 11 - (soma % 11); dv === 10 || dv === 11 ? '0' : dv.toString()
digitoVerificador(base) ==
    LET dv == 11 - (somaDe(base, Len(base), 2) % 11)
    IN IF dv = 10 \/ dv = 11 THEN 0 ELSE dv

\* NotaFiscal.prototype.gerarChaveAcesso, cNF being the number drawn from
\* Math.random().
gerarChaveAcesso(e, cNF) ==
    baseChave(e, cNF) \o <<digitoVerificador(baseChave(e, cNF))>>

\* Math.floor(Math.random() * 99999999): some of 0 .. 99999998.
ControlNumbers == {0, 12345678, 99999998}

\* Documents and issuers: series and numbers of the INTEGER columns, with
\* values at and past the widths of their fields of the key.
Emissoes ==
    [codigo_uf : {5, 35},
     data_emissao : {[ano |-> 2024, mes |-> 1], [ano |-> 2009, mes |-> 12]},
     cnpj : {<<1, 1, 2, 2, 2, 3, 3, 3, 0, 0, 0, 1, 8, 1>>, <<1, 9, 1>>},
     tipo_documento : {"nfce", "nfe"},
     serie : {1, 999, 1000},
     numero : {1, 999999999, 1000000000}]

ChaveInit ==
    /\ emissao \in Emissoes
    /\ chaveRes = [called |-> FALSE, cNF |-> 0, chave |-> <<>>]

ChaveIdle ==
    /\ emissao = [codigo_uf |-> 35, data_emissao |-> [ano |-> 2024, mes |-> 1],
                  cnpj |-> <<1, 9, 1>>, tipo_documento |-> "nfce",
                  serie |-> 1, numero |-> 1]
    /\ chaveRes = [called |-> FALSE, cNF |-> 0, chave |-> <<>>]

GerarChaveAcesso ==
    \E cNF \in ControlNumbers :
        /\ chaveRes' = [called |-> TRUE, cNF |-> cNF,
                        chave |-> gerarChaveAcesso(emissao, cNF)]
        /\ UNCHANGED <<now, venda, vendaRes, produto, produtoRes, nota,
                       notaRes, conta, contaRes, row, inst, pc, req,
                       rowProduto, instProduto, pcProduto, reqProduto,
                       estoqueInicial, itens, estoques, emissao, notas,
                       emitir, totais, totaisRes, item, itemRes, jurosRes,
                       cancelavelRes, categorias, categoriaRes, criadas,
                       recRes>>

(***************************************************************************)
(* NotaFiscal: creation through the base controller.  Model.create         *)
(* validates the instance, then inserts it; the table's unique indexes     *)
(* decide at the insert; the error handler turns the failure into the      *)
(* response.  Several requests may be in flight.                           *)
(***************************************************************************)
DocumentoExemplo(numero) ==
    [codigo_uf |-> 35, data_emissao |-> [ano |-> 2024, mes |-> 1],
     cnpj |-> <<1, 1, 2, 2, 2, 3, 3, 3, 0, 0, 0, 1, 8, 1>>,
     tipo_documento |-> "nfce", serie |-> 1, numero |-> numero]

\* The keys a request body may carry: none, or one from gerarChaveAcesso.
ChavesInformadas ==
    {Null, Some(gerarChaveAcesso(DocumentoExemplo(1), 0)),
     Some(gerarChaveAcesso(DocumentoExemplo(1), 12345678)),
     Some(gerarChaveAcesso(DocumentoExemplo(1000000000), 0))}

Bodies ==
    [numero : {1, 2}, serie : {1}, tipo_documento : {"nfce"},
     chave_acesso : ChavesInformadas]

SemBody ==
    [numero |-> 1, serie |-> 1, tipo_documento |-> "nfce", chave_acesso |-> Null]

SemResposta == [status |-> 0, name |-> NoError]

\* validate: { len: [44, 44] }, skipped for a null value.
chaveValida(chave_acesso) == chave_acesso = Null \/ Len(chave_acesso[1]) = 44

\* The unique index on (numero, serie, tipo_documento) alone.
violaUnicoSoNumero(tabela, n) ==
    \E i \in DOMAIN tabela :
        /\ tabela[i].numero = n.numero /\ tabela[i].serie = n.serie
        /\ tabela[i].tipo_documento = n.tipo_documento

\* The unique indexes of nota_fiscal: (numero, serie, tipo_documento) and
\* chave_acesso (null values never collide).
violaUnico(tabela, n) ==
    \E i \in DOMAIN tabela :
        \/ /\ tabela[i].numero = n.numero /\ tabela[i].serie = n.serie
           /\ tabela[i].tipo_documento = n.tipo_documento
        \/ /\ n.chave_acesso # Null
           /\ tabela[i].chave_acesso = n.chave_acesso

EmitirInit ==
    /\ notas = <<>>
    /\ emitir = [p \in Requests |->
                    [pc |-> "inicio", body |-> SemBody, err |-> NoError,
                     resposta |-> SemResposta]]

\* BaseController.create up to the validation inside Model.create.
CreateValidar(p) ==
    /\ emitir[p].pc = "inicio"
    /\ \E body \in Bodies :
          emitir' = [emitir EXCEPT ![p] =
              IF chaveValida(body.chave_acesso)
              THEN [@ EXCEPT !.pc = "insert", !.body = body]
              ELSE [@ EXCEPT !.pc = "erro", !.body = body,
                             !.err = "SequelizeValidationError"]]
    /\ UNCHANGED <<now, venda, vendaRes, produto, produtoRes, nota, notaRes,
                   conta, contaRes, row, inst, pc, req, rowProduto,
                   instProduto, pcProduto, reqProduto, estoqueInicial, itens,
                   estoques, emissao, chaveRes, notas, totais, totaisRes,
                   item, itemRes, jurosRes, cancelavelRes, categorias,
                   categoriaRes, criadas, recRes>>

\* The INSERT of Model.create and the 201 response.
CreateInsert(p) ==
    /\ emitir[p].pc = "insert"
    /\ IF violaUnico(notas, emitir[p].body)
       THEN /\ emitir' = [emitir EXCEPT ![p].pc = "erro",
                                        ![p].err = "SequelizeUniqueConstraintError"]
            /\ notas' = notas
       ELSE /\ notas' = Append(notas, emitir[p].body)
            /\ emitir' = [emitir EXCEPT ![p].pc = "respondido",
                              ![p].resposta = [status |-> 201, name |-> NoError]]
    /\ UNCHANGED <<now, venda, vendaRes, produto, produtoRes, nota, notaRes,
                   conta, contaRes, row, inst, pc, req, rowProduto,
                   instProduto, pcProduto, reqProduto, estoqueInicial, itens,
                   estoques, emissao, chaveRes, totais, totaisRes, item,
                   itemRes, jurosRes, cancelavelRes, categorias, categoriaRes,
                   criadas, recRes>>

\* next(error) and the errorHandler middleware.
ErrorHandler(p) ==
    /\ emitir[p].pc = "erro"
    /\ emitir' = [emitir EXCEPT ![p].pc = "respondido",
          ![p].resposta =
              IF emitir[p].err = "SequelizeValidationError"
              THEN [status |-> 400, name |-> "ValidationError"]
              ELSE [status |-> 409, name |-> "ConflictError"]]
    /\ UNCHANGED <<now, venda, vendaRes, produto, produtoRes, nota, notaRes,
                   conta, contaRes, row, inst, pc, req, rowProduto,
                   instProduto, pcProduto, reqProduto, estoqueInicial, itens,
                   estoques, emissao, chaveRes, notas, totais, totaisRes,
                   item, itemRes, jurosRes, cancelavelRes, categorias,
                   categoriaRes, criadas, recRes>>

(***************************************************************************)
(* Venda: the totals of the header.  Amounts are whole cents and           *)
(* percentages whole percents, chosen so that subtotal * pct / 100 is      *)
(* exact; the rounding of binary floating point is not modelled.           *)
(***************************************************************************)
Subtotais == {0, 1000, 2000}
Percentuais == {0, 10, 50}
ValoresAbsolutos == {0, 50}
Fretes == {0, 30}

\* The columns a request body may set, each with its values.
CamposVenda ==
    [subtotal |-> Subtotais,
     desconto_percentual |-> Percentuais, desconto_valor |-> ValoresAbsolutos,
     acrescimo_percentual |-> Percentuais, acrescimo_valor |-> ValoresAbsolutos,
     valor_frete |-> Fretes]

\* valorDesconto in Venda.prototype.calcularTotais
valorDesconto(v) ==
    IF v.desconto_percentual > 0
    THEN (v.subtotal * v.desconto_percentual) \div 100
    ELSE v.desconto_valor

\* valorAcrescimo in Venda.prototype.calcularTotais
valorAcrescimo(v) ==
    IF v.acrescimo_percentual > 0
    THEN (v.subtotal * v.acrescimo_percentual) \div 100
    ELSE v.acrescimo_valor

\* Venda.prototype.calcularTotais: assigns valor_total on the instance.
calcularTotaisVenda(v) ==
    [v EXCEPT !.valor_total =
        v.subtotal - valorDesconto(v) + valorAcrescimo(v) + v.valor_frete]

\* A sale as created: every monetary column at its default 0.
TotaisInit ==
    /\ totais = [subtotal |-> 0, desconto_percentual |-> 0, desconto_valor |-> 0,
                 acrescimo_percentual |-> 0, acrescimo_valor |-> 0,
                 valor_frete |-> 0, valor_total |-> 0]
    /\ totaisRes = [called |-> "none"]

\* BaseController.update on a sale: record.update(req.body) sets the columns
\* of the body (one column here) and saves.
UpdateVenda ==
    \E campo \in DOMAIN CamposVenda : \E valor \in CamposVenda[campo] :
        /\ totais' = [totais EXCEPT ![campo] = valor]
        /\ totaisRes' = [called |-> "update"]
        /\ UNCHANGED <<now, venda, vendaRes, produto, produtoRes, nota,
                       notaRes, conta, contaRes, row, inst, pc, req,
                       rowProduto, instProduto, pcProduto, reqProduto,
                       estoqueInicial, itens, estoques, emissao, chaveRes,
                       notas, emitir, item, itemRes, jurosRes, cancelavelRes,
                       categorias, categoriaRes, criadas, recRes>>

CalcularTotaisVenda ==
    /\ totais' = calcularTotaisVenda(totais)
    /\ totaisRes' = [called |-> "calcularTotais"]
    /\ UNCHANGED <<now, venda, vendaRes, produto, produtoRes, nota, notaRes,
                   conta, contaRes, row, inst, pc, req, rowProduto,
                   instProduto, pcProduto, reqProduto, estoqueInicial, itens,
                   estoques, emissao, chaveRes, notas, emitir, item, itemRes,
                   jurosRes, cancelavelRes, categorias, categoriaRes, criadas,
                   recRes>>

(***************************************************************************)
(* ItemVenda: the totals of a line item.  A DECIMAL column holds a number  *)
(* on an instance built from a request body and a string ("10.0000",       *)
(* "0.00") on an instance loaded from the database (MySQL).  Amounts are   *)
(* whole, so that a DECIMAL string is its integer value followed by        *)
(* `casas` zero decimals; the rounding of floating point is not modelled.  *)
(***************************************************************************)
Num(n) == [tipo |-> "number", n |-> n, casas |-> 0]
Str(n, casas) == [tipo |-> "string", n |-> n, casas |-> casas]

\* ToNumber, applied by *, /, - and > to either operand.
toNumber(x) == x.n

\* String(n) followed by the string s: the digits of n, then those of s.
concatena(n, s) ==
    LET digitos == toString(IF n < 0 THEN 0 - n ELSE n) \o toString(s.n)
    IN Str(IF n < 0 THEN 0 - Valor(digitos) ELSE Valor(digitos), s.casas)

\* The + operator with a number on the left: concatenation when the right
\* operand is a string, addition otherwise.
mais(a, b) ==
    IF b.tipo = "string" THEN concatena(toNumber(a), b)
    ELSE Num(toNumber(a) + toNumber(b))

\* ((valor_total - custoTotal) / custoTotal) * 100 in IEEE arithmetic: x / 0
\* is NaN for x = 0 and an infinity otherwise.
margem(total, custoTotal) ==
    IF custoTotal # 0
    THEN [tipo |-> "number", n |-> ((total - custoTotal) * 100) \div custoTotal]
    ELSE IF total = 0 THEN [tipo |-> "NaN", n |-> 0]
    ELSE IF total > 0 THEN [tipo |-> "Infinity", n |-> 0]
    ELSE [tipo |-> "-Infinity", n |-> 0]

SemMargem == [tipo |-> "null", n |-> 0]

\* ItemVenda.prototype.calcularTotais: the instance afterwards and the
\* object returned.
calcularTotais(i) ==
    LET bruto == toNumber(i.preco_unitario) * toNumber(i.quantidade)
        valorDesc ==
            IF toNumber(i.desconto_percentual) > 0
            THEN Num((bruto * toNumber(i.desconto_percentual)) \div 100)
            ELSE i.desconto_valor
        valorAcr ==
            IF toNumber(i.acrescimo_percentual) > 0
            THEN Num((bruto * toNumber(i.acrescimo_percentual)) \div 100)
            ELSE i.acrescimo_valor
        valor_total == mais(Num(bruto - toNumber(valorDesc)), valorAcr)
        custoTotal == toNumber(i.custo_unitario) * toNumber(i.quantidade)
        margem_lucro == margem(toNumber(valor_total), custoTotal)
    IN [item |-> [i EXCEPT !.valor_total = valor_total,
                           !.margem_lucro = margem_lucro],
        ret |-> [subtotal |-> Num(bruto), desconto |-> valorDesc,
                 acrescimo |-> valorAcr, total |-> valor_total,
                 margem_lucro |-> margem_lucro]]

\* How the instance came to be: built from a body of numbers, or loaded.
Origens == {"build", "banco"}

\* A DECIMAL(_, casas) value v on an instance of the given origin.
Decimal(origem, v, casas) == IF origem = "build" THEN Num(v) ELSE Str(v, casas)

ItensVenda ==
    {[preco_unitario |-> Decimal(o, 10, 4), quantidade |-> Decimal(o, q, 3),
      desconto_percentual |-> Decimal(o, dp, 2), desconto_valor |-> Decimal(o, dv, 2),
      acrescimo_percentual |-> Decimal(o, ap, 2), acrescimo_valor |-> Decimal(o, av, 2),
      custo_unitario |-> Decimal(o, c, 4),
      valor_total |-> Decimal(o, 0, 2), margem_lucro |-> SemMargem] :
        o \in Origens, q \in {1, 2}, dp \in {0, 50}, dv \in {0, 2},
        ap \in {0, 50}, av \in {0, 2}, c \in {0, 5}}

SemRetorno ==
    [subtotal |-> Num(0), desconto |-> Num(0), acrescimo |-> Num(0),
     total |-> Num(0), margem_lucro |-> SemMargem]

ItemInit ==
    /\ item \in ItensVenda
    /\ itemRes = [called |-> FALSE, old |-> item, ret |-> SemRetorno]

ItemIdle ==
    /\ item = [preco_unitario |-> Num(10), quantidade |-> Num(1),
               desconto_percentual |-> Num(0), desconto_valor |-> Num(0),
               acrescimo_percentual |-> Num(0), acrescimo_valor |-> Num(0),
               custo_unitario |-> Num(0),
               valor_total |-> Num(0), margem_lucro |-> SemMargem]
    /\ itemRes = [called |-> FALSE, old |-> item, ret |-> SemRetorno]

CalcularTotais ==
    /\ item' = calcularTotais(item).item
    /\ itemRes' = [called |-> TRUE, old |-> item, ret |-> calcularTotais(item).ret]
    /\ UNCHANGED <<now, venda, vendaRes, produto, produtoRes, nota, notaRes,
                   conta, contaRes, row, inst, pc, req, rowProduto,
                   instProduto, pcProduto, reqProduto, estoqueInicial, itens,
                   estoques, emissao, chaveRes, notas, emitir, totais,
                   totaisRes, jurosRes, cancelavelRes, categorias,
                   categoriaRes, criadas, recRes>>

(***************************************************************************)
(* ContaReceber: late charges.                                             *)
(***************************************************************************)
\* ContaReceber.prototype.estaVencida, hoje being new Date() at the call.
estaVencida(c, hoje) ==
    Instante(c.data_vencimento) < hoje /\ c.status # "recebido"

\* Math.floor((dataBase - vencimento) / (1000 * 60 * 60 * 24))
diasAtraso(c, dataBase) == (dataBase - Instante(c.data_vencimento)) \div PorDia

\* this.valor_original * 0.02
multaDe(c) == (c.valor_original * 2) \div 100

\* this.valor_original * (0.00033 * diasAtraso)
jurosDe(c, dataBase) == (c.valor_original * 33 * diasAtraso(c, dataBase)) \div 100000

\* ContaReceber.prototype.calcularJurosMulta called at instant hoje.
calcularJurosMulta(c, dataBase, hoje) ==
    IF ~estaVencida(c, hoje)
    THEN [conta |-> c, ret |-> [juros |-> 0, multa |-> 0]]
    ELSE [conta |-> [c EXCEPT !.valor_multa = multaDe(c),
                              !.valor_juros = jurosDe(c, dataBase)],
          ret |-> [juros |-> jurosDe(c, dataBase), multa |-> multaDe(c)]]

\* The dates a caller may pass as dataBase.
DatasBase == 0 .. MaxTime

JurosIdle ==
    jurosRes = [called |-> FALSE, dataBase |-> 0, hoje |-> 0,
                old |-> NovaConta(Unidade, 0, 0, 0),
                nova |-> NovaConta(Unidade, 0, 0, 0),
                ret |-> [juros |-> 0, multa |-> 0]]

CalcularJurosMulta ==
    \E dataBase \in DatasBase :
        LET r == calcularJurosMulta(conta, dataBase, now) IN
        /\ conta' = r.conta
        /\ jurosRes' = [called |-> TRUE, dataBase |-> dataBase, hoje |-> now,
                        old |-> conta, nova |-> r.conta, ret |-> r.ret]
        /\ UNCHANGED <<now, venda, vendaRes, produto, produtoRes, nota,
                       notaRes, contaRes, row, inst, pc, req, rowProduto,
                       instProduto, pcProduto, reqProduto, estoqueInicial,
                       itens, estoques, emissao, chaveRes, notas, emitir,
                       totais, totaisRes, item, itemRes, cancelavelRes,
                       categorias, categoriaRes, criadas, recRes>>

(***************************************************************************)
(* Categoria: the hierarchy and its cached path.  A path is the sequence   *)
(* of the names that the source joins with '/'.  The afterUpdate hook is   *)
(* taken to see changed('nome') / changed('categoria_pai_id') for the      *)
(* columns the update changed, and not for the save of caminho inside      *)
(* atualizarCaminho.                                                       *)
(***************************************************************************)
CategoriaIds == 1 .. 2
Nomes == {"aa", "bb"}
CategoriaStatus == {"ativa", "inativa"}

SemCategoria ==
    [existe |-> FALSE, nome |-> "aa", categoria_pai_id |-> Null,
     status |-> "ativa", caminho |-> <<>>]

RECURSIVE termina(_, _, _)
\* Whether the recursion of getCaminhoCompleto from id returns: it follows
\* categoria_pai_id until a category without parent (or with a parent that
\* does not exist); more calls than there are categories means a cycle, on
\* which it never returns.
termina(tab, id, passos) ==
    IF tab[id].categoria_pai_id = Null THEN TRUE
    ELSE IF ~tab[tab[id].categoria_pai_id[1]].existe THEN TRUE
    ELSE IF passos = 0 THEN FALSE
    ELSE termina(tab, tab[id].categoria_pai_id[1], passos - 1)

RECURSIVE getCaminhoCompleto(_, _, _)
\* Categoria.prototype.getCaminhoCompleto on the category id, where it returns.
getCaminhoCompleto(tab, id, passos) ==
    IF tab[id].categoria_pai_id = Null THEN <<tab[id].nome>>
    ELSE IF ~tab[tab[id].categoria_pai_id[1]].existe THEN <<tab[id].nome>>
    ELSE IF passos = 0 THEN <<tab[id].nome>>
    ELSE Append(getCaminhoCompleto(tab, tab[id].categoria_pai_id[1], passos - 1),
                tab[id].nome)

\* Categoria.prototype.getSubcategorias: the active children.
getSubcategorias(tab, id) ==
    {c \in CategoriaIds : /\ tab[c].existe
                          /\ tab[c].categoria_pai_id = Some(id)
                          /\ tab[c].status = "ativa"}

RECURSIVE atualizarCaminho(_, _, _)
RECURSIVE atualizarSubcategorias(_, _, _)
\* Categoria.prototype.atualizarCaminho on the category id, where it returns:
\* the table afterwards.
atualizarCaminho(tab, id, passos) ==
    LET salvo == [tab EXCEPT ![id].caminho =
                      getCaminhoCompleto(tab, id, Cardinality(CategoriaIds))]
    IN IF passos = 0 THEN salvo
       ELSE atualizarSubcategorias(salvo, getSubcategorias(salvo, id), passos - 1)

\* for (const subcat of subcategorias) await subcat.atualizarCaminho()
atualizarSubcategorias(tab, subcategorias, passos) ==
    IF subcategorias = {} THEN tab
    ELSE LET subcat == CHOOSE c \in subcategorias : TRUE
         IN atualizarSubcategorias(atualizarCaminho(tab, subcat, passos),
                                   subcategorias \ {subcat}, passos)

\* A hook calling atualizarCaminho: the table afterwards and whether the call
\* returned (it saves nothing when getCaminhoCompleto does not return).
hookAtualizarCaminho(tab, id) ==
    IF termina(tab, id, Cardinality(CategoriaIds))
    THEN [categorias |-> atualizarCaminho(tab, id, Cardinality(CategoriaIds)),
          termina |-> TRUE]
    ELSE [categorias |-> tab, termina |-> FALSE]

\* The parents a body may name: none, or an existing category (the foreign
\* key), the category itself and its descendants included.
Pais(tab) == {Null} \cup {Some(c) : c \in {c \in CategoriaIds : tab[c].existe}}

CategoriaInit ==
    /\ categorias = [c \in CategoriaIds |-> SemCategoria]
    /\ categoriaRes = [called |-> FALSE, termina |-> TRUE]

\* BaseController.create on Categoria and the afterCreate hook.
CreateCategoria ==
    \E id \in CategoriaIds, nome \in Nomes, pai \in Pais(categorias),
       status \in CategoriaStatus :
        /\ ~categorias[id].existe
        /\ \A c \in CategoriaIds : c < id => categorias[c].existe
        /\ LET criada == [categorias EXCEPT ![id] =
                             [existe |-> TRUE, nome |-> nome,
                              categoria_pai_id |-> pai, status |-> status,
                              caminho |-> <<>>]]
               r == hookAtualizarCaminho(criada, id)
           IN /\ categorias' = r.categorias
              /\ categoriaRes' = [called |-> TRUE, termina |-> r.termina]
        /\ UNCHANGED <<now, venda, vendaRes, produto, produtoRes, nota,
                       notaRes, conta, contaRes, row, inst, pc, req,
                       rowProduto, instProduto, pcProduto, reqProduto,
                       estoqueInicial, itens, estoques, emissao, chaveRes,
                       notas, emitir, totais, totaisRes, item, itemRes,
                       jurosRes, cancelavelRes, criadas, recRes>>

\* The bodies of an update: one column and its new value.
BodiesCategoria(tab) ==
    {[campo |-> "nome", nome |-> n, categoria_pai_id |-> Null, status |-> "ativa"] :
         n \in Nomes}
    \cup {[campo |-> "categoria_pai_id", nome |-> "aa", categoria_pai_id |-> p,
           status |-> "ativa"] : p \in Pais(tab)}
    \cup {[campo |-> "status", nome |-> "aa", categoria_pai_id |-> Null,
           status |-> s] : s \in CategoriaStatus}

\* BaseController.update on Categoria and the afterUpdate hook.
UpdateCategoria ==
    \E id \in CategoriaIds : \E body \in BodiesCategoria(categorias) :
        /\ categorias[id].existe
        /\ LET campo == body.campo
               atualizada == [categorias EXCEPT ![id][campo] = body[campo]]
               mudou == atualizada[id][campo] # categorias[id][campo]
               r == IF mudou /\ campo \in {"nome", "categoria_pai_id"}
                    THEN hookAtualizarCaminho(atualizada, id)
                    ELSE [categorias |-> atualizada, termina |-> TRUE]
           IN /\ categorias' = r.categorias
              /\ categoriaRes' = [called |-> TRUE, termina |-> r.termina]
        /\ UNCHANGED <<now, venda, vendaRes, produto, produtoRes, nota,
                       notaRes, conta, contaRes, row, inst, pc, req,
                       rowProduto, instProduto, pcProduto, reqProduto,
                       estoqueInicial, itens, estoques, emissao, chaveRes,
                       notas, emitir, totais, totaisRes, item, itemRes,
                       jurosRes, cancelavelRes, criadas, recRes>>

(***************************************************************************)
(* ContaReceber: the next entry of a recurring one.  A date is its number  *)
(* of days from 2024-01-01 (day 0); months are counted from January 2024   *)
(* (month 0).  Local time is taken to be UTC.                              *)
(***************************************************************************)
\* The days of month m.
DiasNoMes(m) ==
    LET ano == 2024 + (m \div 12)
        mes == (m % 12) + 1
    IN IF mes = 2
       THEN (IF ano % 4 = 0 /\ (ano % 100 # 0 \/ ano % 400 = 0) THEN 29 ELSE 28)
       ELSE IF mes \in {4, 6, 9, 11} THEN 30 ELSE 31

RECURSIVE InicioDoMes(_)
\* The first day of month m.
InicioDoMes(m) == IF m = 0 THEN 0 ELSE InicioDoMes(m - 1) + DiasNoMes(m - 1)

\* Date.prototype.getMonth (with the year): the month that day d is in.
getMonth(d) ==
    CHOOSE m \in 0 .. 48 : InicioDoMes(m) <= d /\ d < InicioDoMes(m + 1)

\* Date.prototype.getDate: the day of the month, from 1.
getDate(d) == (d - InicioDoMes(getMonth(d))) + 1

\* Date.prototype.setMonth(m) on day d: the same day of the month in month m,
\* running over into the following month when month m is shorter.
setMonth(d, m) == InicioDoMes(m) + (getDate(d) - 1)

Periodicidades == {"mensal", "bimestral", "trimestral", "semestral", "anual"}

\* const periodos = { mensal: 1, bimestral: 2, trimestral: 3, semestral: 6,
\* anual: 12 }
periodos(periodicidade) ==
    CASE periodicidade = "mensal" -> 1
      [] periodicidade = "bimestral" -> 2
      [] periodicidade = "trimestral" -> 3
      [] periodicidade = "semestral" -> 6
      [] periodicidade = "anual" -> 12

ErrRecorrente == "Conta nao e recorrente"

\* The guard testing the periodicity alone.
naoRecorrenteSoPeriodicidade(c) == c.periodicidade = Null

\* !this.recorrente || !this.periodicidade
naoRecorrente(c) == ~c.recorrente \/ c.periodicidade = Null

\* ContaReceber.prototype.gerarProximaRecorrencia on instance c: the error, the
\* instance after the call and the entries created (none or one).
gerarProximaRecorrencia(c) ==
    IF naoRecorrente(c) THEN [err |-> ErrRecorrente, conta |-> c, criadas |-> <<>>]
    ELSE [err |-> NoError, conta |-> c,
          criadas |-> <<[c EXCEPT
              !.data_vencimento =
                  setMonth(c.data_vencimento,
                           getMonth(c.data_vencimento) + periodos(c.periodicidade[1])),
              !.data_recebimento = Null,
              !.valor_recebido = 0,
              !.valor_restante = c.valor_original,
              !.status = "em_aberto"]>>]

\* How many entries gerarProximaRecorrencia may create in a behaviour.
MaxCriadas == 2

\* The due dates of recurring entries: 2024-01-01, 2024-01-15, 2024-01-31.
VencimentosRecorrentes == {0, 14, 30}

\* Entries with and without recurrence, as created or partly settled.
ContasRecorrentes ==
    {[c EXCEPT !.recorrente = r, !.periodicidade = p, !.data_vencimento = d] :
        c \in {c \in ContasNovas : c.valor_restante # 0 /\ c.data_vencimento = 0},
        r \in BOOLEAN, p \in {Null} \cup {Some(x) : x \in Periodicidades},
        d \in VencimentosRecorrentes}

ContaRecorrenteInit ==
    /\ conta \in ContasRecorrentes
    /\ contaRes = [called |-> FALSE, valorRecebido |-> 0, old |-> conta,
                   err |-> NoError]

\* The entries of the ledger: as created, with the remaining amount stored at
\* creation, due on day 0, monthly or not recurring.
ContasLedger ==
    {c \in ContasRecorrentes :
        /\ c.data_vencimento = 0
        /\ c.valor_original <= 2 * Unidade
        /\ c.periodicidade = (IF c.recorrente THEN Some("mensal") ELSE Null)}

ContaLedgerInit ==
    /\ conta \in ContasLedger
    /\ contaRes = [called |-> FALSE, valorRecebido |-> 0, old |-> conta,
                   err |-> NoError]

\* The ledger keeps the entry and the entries created from it, and no record
\* of the calls: the three operations, the cancellation and the clock.
LedgerRegistrarRecebimento ==
    \E valorRecebido \in Valores :
        /\ conta' = registrarRecebimento(conta, valorRecebido, now).conta
        /\ UNCHANGED <<now, venda, vendaRes, produto, produtoRes, nota,
                       notaRes, contaRes, row, inst, pc, req, rowProduto,
                       instProduto, pcProduto, reqProduto, estoqueInicial,
                       itens, estoques, emissao, chaveRes, notas, emitir,
                       totais, totaisRes, item, itemRes, jurosRes,
                       cancelavelRes, categorias, categoriaRes, criadas,
                       recRes>>

LedgerCalcularJurosMulta ==
    \E dataBase \in DatasBase :
        /\ conta' = calcularJurosMulta(conta, dataBase, now).conta
        /\ UNCHANGED <<now, venda, vendaRes, produto, produtoRes, nota,
                       notaRes, contaRes, row, inst, pc, req, rowProduto,
                       instProduto, pcProduto, reqProduto, estoqueInicial,
                       itens, estoques, emissao, chaveRes, notas, emitir,
                       totais, totaisRes, item, itemRes, jurosRes,
                       cancelavelRes, categorias, categoriaRes, criadas,
                       recRes>>

LedgerGerarProximaRecorrencia ==
    LET r == gerarProximaRecorrencia(conta) IN
    /\ Len(criadas) < MaxCriadas
    /\ criadas' = criadas \o r.criadas
    /\ conta' = r.conta
    /\ UNCHANGED <<now, venda, vendaRes, produto, produtoRes, nota, notaRes,
                   contaRes, row, inst, pc, req, rowProduto, instProduto,
                   pcProduto, reqProduto, estoqueInicial, itens, estoques,
                   emissao, chaveRes, notas, emitir, totais, totaisRes, item,
                   itemRes, jurosRes, cancelavelRes, categorias, categoriaRes,
                   recRes>>

\* BaseController.update of the entry with body {status: 'cancelado'}.
CancelarConta ==
    /\ conta.status # "cancelado"
    /\ conta' = [conta EXCEPT !.status = "cancelado"]
    /\ UNCHANGED <<now, venda, vendaRes, produto, produtoRes, nota, notaRes,
                   contaRes, row, inst, pc, req, rowProduto, instProduto,
                   pcProduto, reqProduto, estoqueInicial, itens, estoques,
                   emissao, chaveRes, notas, emitir, totais, totaisRes, item,
                   itemRes, jurosRes, cancelavelRes, categorias, categoriaRes,
                   criadas, recRes>>

RecorrenciaIdle ==
    /\ criadas = <<>>
    /\ recRes = [called |-> FALSE, old |-> NovaConta(Unidade, 0, 0, 0),
                 nova |-> NovaConta(Unidade, 0, 0, 0), err |-> NoError,
                 antes |-> 0]

GerarProximaRecorrencia ==
    LET r == gerarProximaRecorrencia(conta) IN
    /\ Len(criadas) < MaxCriadas
    /\ criadas' = criadas \o r.criadas
    /\ conta' = r.conta
    /\ recRes' = [called |-> TRUE, old |-> conta, nova |-> r.conta,
                  err |-> r.err, antes |-> Len(criadas)]
    /\ UNCHANGED <<now, venda, vendaRes, produto, produtoRes, nota, notaRes,
                   contaRes, row, inst, pc, req, rowProduto,
                   instProduto, pcProduto, reqProduto, estoqueInicial, itens,
                   estoques, emissao, chaveRes, notas, emitir, totais,
                   totaisRes, item, itemRes, jurosRes, cancelavelRes,
                   categorias, categoriaRes>>

(***************************************************************************)
(* Specifications, one per component.                                      *)
(***************************************************************************)
NextVenda == AtualizarStatus \/ PodeSerCancelada \/ Tick

InitVenda ==
    now = 0 /\ VendaInit /\ ProdutoIdle /\ NotaIdle /\ ContaIdle /\
    ConcIdle /\ ConcProdutoIdle /\ ItensIdle /\ ChaveIdle /\ EmitirInit /\
    TotaisInit /\ ItemIdle /\ JurosIdle /\ CancelavelIdle /\ CategoriaInit /\
    RecorrenciaIdle

SpecVenda == InitVenda /\ [][NextVenda]_vars

InitProduto ==
    now = 0 /\ VendaIdle /\ ProdutoInit /\ NotaIdle /\ ContaIdle /\
    ConcIdle /\ ConcProdutoIdle /\ ItensIdle /\ ChaveIdle /\ EmitirInit /\
    TotaisInit /\ ItemIdle /\ JurosIdle /\ CancelavelIdle /\ CategoriaInit /\
    RecorrenciaIdle

SpecProduto == InitProduto /\ [][AtualizarEstoque]_vars

InitNota ==
    now = 0 /\ VendaIdle /\ ProdutoIdle /\ NotaInit /\ ContaIdle /\
    ConcIdle /\ ConcProdutoIdle /\ ItensIdle /\ ChaveIdle /\ EmitirInit /\
    TotaisInit /\ ItemIdle /\ JurosIdle /\ CancelavelIdle /\ CategoriaInit /\
    RecorrenciaIdle

SpecNota == InitNota /\ [][Cancelar]_vars

NextConta == RegistrarRecebimento \/ Tick

InitConta ==
    now = 0 /\ VendaIdle /\ ProdutoIdle /\ NotaIdle /\ ContaInit /\
    ConcIdle /\ ConcProdutoIdle /\ ItensIdle /\ ChaveIdle /\ EmitirInit /\
    TotaisInit /\ ItemIdle /\ JurosIdle /\ CancelavelIdle /\ CategoriaInit /\
    RecorrenciaIdle

SpecConta == InitConta /\ [][NextConta]_vars

NextConcorrente == \E p \in Requests : Load(p) \/ Registrar(p) \/ Save(p)

InitConcorrente ==
    now = 0 /\ VendaIdle /\ ProdutoIdle /\ NotaIdle /\ ContaIdle /\
    ConcInit /\ ConcProdutoIdle /\ ItensIdle /\ ChaveIdle /\ EmitirInit /\
    TotaisInit /\ ItemIdle /\ JurosIdle /\ CancelavelIdle /\ CategoriaInit /\
    RecorrenciaIdle

SpecConcorrente == InitConcorrente /\ [][NextConcorrente]_vars

NextConcProduto ==
    \E q \in Requests : LoadProduto(q) \/ Debitar(q) \/ SaveProduto(q)

InitConcProduto ==
    now = 0 /\ VendaIdle /\ ProdutoIdle /\ NotaIdle /\ ContaIdle /\
    ConcIdle /\ ConcProdutoInit /\ ItensIdle /\ ChaveIdle /\ EmitirInit /\
    TotaisInit /\ ItemIdle /\ JurosIdle /\ CancelavelIdle /\ CategoriaInit /\
    RecorrenciaIdle

SpecConcProduto == InitConcProduto /\ [][NextConcProduto]_vars

InitConfirmacao ==
    now = 0 /\ VendaInit /\ ProdutoIdle /\ NotaIdle /\ ContaIdle /\
    ConcIdle /\ ConcProdutoIdle /\ ItensInit /\ ChaveIdle /\ EmitirInit /\
    TotaisInit /\ ItemIdle /\ JurosIdle /\ CancelavelIdle /\ CategoriaInit /\
    RecorrenciaIdle

SpecConfirmacao == InitConfirmacao /\ [][NextVenda]_vars

InitChave ==
    now = 0 /\ VendaIdle /\ ProdutoIdle /\ NotaIdle /\ ContaIdle /\
    ConcIdle /\ ConcProdutoIdle /\ ItensIdle /\ ChaveInit /\ EmitirInit /\
    TotaisInit /\ ItemIdle /\ JurosIdle /\ CancelavelIdle /\ CategoriaInit /\
    RecorrenciaIdle

SpecChave == InitChave /\ [][GerarChaveAcesso]_vars

NextEmitir ==
    \E p \in Requests : CreateValidar(p) \/ CreateInsert(p) \/ ErrorHandler(p)

InitEmitir ==
    now = 0 /\ VendaIdle /\ ProdutoIdle /\ NotaIdle /\ ContaIdle /\
    ConcIdle /\ ConcProdutoIdle /\ ItensIdle /\ ChaveIdle /\ EmitirInit /\
    TotaisInit /\ ItemIdle /\ JurosIdle /\ CancelavelIdle /\ CategoriaInit /\
    RecorrenciaIdle

SpecEmitir == InitEmitir /\ [][NextEmitir]_vars

NextTotais == UpdateVenda \/ CalcularTotaisVenda

InitTotais ==
    now = 0 /\ VendaIdle /\ ProdutoIdle /\ NotaIdle /\ ContaIdle /\
    ConcIdle /\ ConcProdutoIdle /\ ItensIdle /\ ChaveIdle /\ EmitirInit /\
    TotaisInit /\ ItemIdle /\ JurosIdle /\ CancelavelIdle /\ CategoriaInit /\
    RecorrenciaIdle

SpecTotais == InitTotais /\ [][NextTotais]_vars

InitItem ==
    now = 0 /\ VendaIdle /\ ProdutoIdle /\ NotaIdle /\ ContaIdle /\
    ConcIdle /\ ConcProdutoIdle /\ ItensIdle /\ ChaveIdle /\ EmitirInit /\
    TotaisInit /\ ItemInit /\ JurosIdle /\ CancelavelIdle /\ CategoriaInit /\
    RecorrenciaIdle

SpecItem == InitItem /\ [][CalcularTotais]_vars

NextJuros == CalcularJurosMulta \/ RegistrarRecebimento \/ Tick

InitJuros ==
    now = 0 /\ VendaIdle /\ ProdutoIdle /\ NotaIdle /\ ContaInit /\
    ConcIdle /\ ConcProdutoIdle /\ ItensIdle /\ ChaveIdle /\ EmitirInit /\
    TotaisInit /\ ItemIdle /\ JurosIdle /\ CancelavelIdle /\ CategoriaInit /\
    RecorrenciaIdle

SpecJuros == InitJuros /\ [][NextJuros]_vars

NextCategoria == CreateCategoria \/ UpdateCategoria

InitCategoria ==
    now = 0 /\ VendaIdle /\ ProdutoIdle /\ NotaIdle /\ ContaIdle /\
    ConcIdle /\ ConcProdutoIdle /\ ItensIdle /\ ChaveIdle /\ EmitirInit /\
    TotaisInit /\ ItemIdle /\ JurosIdle /\ CancelavelIdle /\ CategoriaInit /\
    RecorrenciaIdle

SpecCategoria == InitCategoria /\ [][NextCategoria]_vars

NextRecorrencia == GerarProximaRecorrencia \/ RegistrarRecebimento

InitRecorrencia ==
    now = 0 /\ VendaIdle /\ ProdutoIdle /\ NotaIdle /\ ContaRecorrenteInit /\
    ConcIdle /\ ConcProdutoIdle /\ ItensIdle /\ ChaveIdle /\ EmitirInit /\
    TotaisInit /\ ItemIdle /\ JurosIdle /\ CancelavelIdle /\ CategoriaInit /\
    RecorrenciaIdle

SpecRecorrencia == InitRecorrencia /\ [][NextRecorrencia]_vars

NextLedger ==
    \/ LedgerRegistrarRecebimento
    \/ LedgerCalcularJurosMulta
    \/ LedgerGerarProximaRecorrencia
    \/ CancelarConta
    \/ Tick

InitLedger ==
    now = 0 /\ VendaIdle /\ ProdutoIdle /\ NotaIdle /\ ContaLedgerInit /\
    ConcIdle /\ ConcProdutoIdle /\ ItensIdle /\ ChaveIdle /\ EmitirInit /\
    TotaisInit /\ ItemIdle /\ JurosIdle /\ CancelavelIdle /\ CategoriaInit /\
    RecorrenciaIdle

SpecLedger == InitLedger /\ [][NextLedger]_vars

(***************************************************************************)
(* Properties of the sale status machine.                                  *)
(***************************************************************************)
\* The legal targets of each status, as the transition table is specified.
LegalTargets(status) ==
    CASE status = "pendente" -> {"aprovada", "cancelada"}
      [] status = "aprovada" -> {"em_separacao", "cancelada"}
      [] status = "em_separacao" -> {"faturada", "cancelada"}
      [] status = "faturada" -> {"em_transporte", "entregue", "cancelada"}
      [] status = "em_transporte" -> {"entregue", "cancelada"}
      [] OTHER -> {}

\* C1: for every current status and every target, atualizarStatus succeeds and
\* sets the status to the target exactly when the target is in the current
\* status's legal set; otherwise it throws and leaves the status and the
\* delivery timestamp as they were.
C1_TransitionTable ==
    vendaRes.called =>
        IF vendaRes.novoStatus \in LegalTargets(vendaRes.old.status)
        THEN /\ vendaRes.err = NoError
             /\ venda.status = vendaRes.novoStatus
        ELSE /\ vendaRes.err = ErrStatus
             /\ venda.status = vendaRes.old.status
             /\ venda.data_entrega_realizada = vendaRes.old.data_entrega_realizada

\* A transition to a status of the ENUM was refused from a status that has
\* legal targets, after the sale had moved.
C1_Witness ==
    /\ vendaRes.called
    /\ vendaRes.old.status = "faturada"
    /\ vendaRes.novoStatus = "aprovada"
    /\ vendaRes.err = ErrStatus
    /\ venda.status = "faturada"

TerminalStatus == {"entregue", "cancelada"}

\* C2: once a sale is entregue or cancelada its status never changes again and
\* every atualizarStatus call on it throws; a pendente sale never moves to
\* entregue in one step.
C2_TerminalStates ==
    [][ /\ venda.status \in TerminalStatus => venda'.status = venda.status
        /\ (venda.status \in TerminalStatus /\ vendaRes' # vendaRes)
               => vendaRes'.err = ErrStatus
        /\ ~(venda.status = "pendente" /\ venda'.status = "entregue") ]_vars

\* A delivered sale on which a cancellation was attempted and refused.
C2_Witness ==
    /\ vendaRes.called
    /\ vendaRes.old.status = "entregue"
    /\ vendaRes.novoStatus = "cancelada"
    /\ vendaRes.err = ErrStatus
    /\ venda.status = "entregue"

\* C23: podeSerCancelada returns true exactly when the transition table
\* allows cancelada from the instance's status, that is false only for
\* entregue and cancelada; and a transition to cancelada is accepted exactly
\* from the statuses for which it returns true.
C23_CancellableAgrees ==
    /\ cancelavelRes.called =>
          /\ cancelavelRes.ret <=> "cancelada" \in statusValidos(cancelavelRes.status)
          /\ ~cancelavelRes.ret <=> cancelavelRes.status \in {"entregue", "cancelada"}
    /\ (vendaRes.called /\ vendaRes.novoStatus = "cancelada")
          => (vendaRes.err = NoError <=> podeSerCancelada(vendaRes.old))

\* A delivered sale was asked and answered not cancellable, and its
\* cancellation was refused.
C23_Witness ==
    /\ cancelavelRes.called
    /\ cancelavelRes.status = "entregue"
    /\ ~cancelavelRes.ret
    /\ vendaRes.called
    /\ vendaRes.novoStatus = "cancelada"
    /\ vendaRes.old.status = "entregue"
    /\ vendaRes.err = ErrStatus

\* C27: data_entrega_realizada is set by the transition that reaches
\* entregue and by no other call: a sale created without it has it set if
\* and only if its status is entregue, and every call that does not reach
\* entregue leaves it as it was.
C27_DeliveryTimestamp ==
    /\ venda.data_entrega_realizada # Null <=> venda.status = "entregue"
    /\ vendaRes.called =>
          IF vendaRes.err = NoError /\ vendaRes.novoStatus = "entregue"
          THEN /\ vendaRes.old.data_entrega_realizada = Null
               /\ venda.data_entrega_realizada # Null
               /\ venda.data_entrega_realizada[1] <= now
          ELSE venda.data_entrega_realizada = vendaRes.old.data_entrega_realizada

\* A sale delivered after time has passed, through shipping, carrying the
\* time of the delivery.
C27_Witness ==
    /\ vendaRes.called
    /\ vendaRes.err = NoError
    /\ vendaRes.old.status = "em_transporte"
    /\ venda.status = "entregue"
    /\ venda.data_entrega_realizada # Null
    /\ venda.data_entrega_realizada[1] > 0

(***************************************************************************)
(* Properties of stock movements.                                          *)
(***************************************************************************)
\* C3: a 'saida' of more than the current stock throws 'Estoque insuficiente'
\* and leaves estoque_atual and status as they were.
C3_DebitRejected ==
    (/\ produtoRes.called
     /\ produtoRes.tipo = "saida"
     /\ produtoRes.quantidade > produtoRes.old.estoque_atual)
        => /\ produtoRes.err = ErrEstoque
           /\ produto = produtoRes.old

\* A debit larger than a positive balance was refused.
C3_Witness ==
    /\ produtoRes.called
    /\ produtoRes.tipo = "saida"
    /\ produtoRes.old.estoque_atual > 0
    /\ produtoRes.quantidade > produtoRes.old.estoque_atual
    /\ produtoRes.err = ErrEstoque

\* C4: after every successful atualizarEstoque the status is esgotado if and
\* only if estoque_atual <= 0.
C4_StatusInvariant ==
    (produtoRes.called /\ produtoRes.err = NoError)
        => (produto.status = "esgotado" <=> produto.estoque_atual <= 0)

\* A product on promotion sold out by a debit of its whole balance.
C4_Witness ==
    /\ produtoRes.called
    /\ produtoRes.err = NoError
    /\ produtoRes.tipo = "saida"
    /\ produtoRes.old.status = "em_promocao"
    /\ produtoRes.old.estoque_atual > 0
    /\ produto.estoque_atual = 0
    /\ produto.status = "esgotado"

\* C5: starting from estoque_atual >= 0, after any sequence of atualizarEstoque
\* calls estoque_atual is never negative.
C5_NonNegativeStock == produto.estoque_atual >= 0

\* C26: an accepted atualizarEstoque changes the status in two cases only:
\* to esgotado when the new balance is <= 0, and to ativo when the status was
\* esgotado and the new balance is > 0; otherwise, and on a rejected call, the
\* status stays.  So a restocked product is ativo whatever its status was
\* before it sold out.
C26_StatusFrame ==
    produtoRes.called =>
        IF produtoRes.err # NoError THEN produto.status = produtoRes.old.status
        ELSE IF produto.estoque_atual <= 0 THEN produto.status = "esgotado"
        ELSE IF produtoRes.old.status = "esgotado" THEN produto.status = "ativo"
        ELSE produto.status = produtoRes.old.status

\* A product on promotion sold out and was restocked: it is ativo.
C26_Witness ==
    /\ produtoRes.called
    /\ produtoRes.err = NoError
    /\ produtoRes.statusAntes = "em_promocao"
    /\ produtoRes.old.status = "esgotado"
    /\ produtoRes.tipo = "entrada"
    /\ produto.estoque_atual > 0
    /\ produto.status = "ativo"

(***************************************************************************)
(* Properties of fiscal document cancellation.                             *)
(***************************************************************************)
\* C6: cancelar throws the status error unless the status is autorizada; on
\* success the status is cancelada and the justification is stored; on failure
\* status and stored justification are as before.  So a cancel of a cancelled
\* document throws the status error and keeps the stored justification.
C6_Cancel ==
    notaRes.called =>
        /\ notaRes.old.status # "autorizada" => notaRes.err = ErrNotaStatus
        /\ notaRes.err = NoError =>
               /\ notaRes.old.status = "autorizada"
               /\ nota.status = "cancelada"
               /\ nota.justificativa_cancelamento = notaRes.justificativa
        /\ notaRes.err # NoError => nota = notaRes.old
        /\ notaRes.old.status = "cancelada" =>
               /\ notaRes.err = ErrNotaStatus
               /\ nota.justificativa_cancelamento =
                      notaRes.old.justificativa_cancelamento

\* A second cancel, with another justification long enough, of a document
\* cancelled by a first one.
C6_Witness ==
    /\ notaRes.called
    /\ notaRes.old.status = "cancelada"
    /\ notaRes.old.justificativa_cancelamento # Null
    /\ notaRes.justificativa # Null
    /\ notaRes.justificativa # notaRes.old.justificativa_cancelamento
    /\ Len(notaRes.justificativa[1]) >= MinJustificativa
    /\ notaRes.err = ErrNotaStatus

\* A justification that is a string of fewer than 15 characters.
Shorter15(justificativa) ==
    justificativa # Null /\ Len(justificativa[1]) < 15

\* C7 as stated: a justification shorter than 15 characters always throws the
\* justification error, whatever the status of the document.
C7_ShortAlwaysValidation ==
    (notaRes.called /\ Shorter15(notaRes.justificativa))
        => notaRes.err = ErrJustificativa

\* C7 as amended: a justification shorter than 15 characters is always refused
\* and the document left as it was; the error is the justification error when
\* the status is autorizada and the status error otherwise.
C7_ShortAlwaysRejected ==
    (notaRes.called /\ Shorter15(notaRes.justificativa))
        => /\ nota = notaRes.old
           /\ notaRes.err = IF notaRes.old.status = "autorizada"
                            THEN ErrJustificativa
                            ELSE ErrNotaStatus

\* An authorized document whose cancellation with 14 characters was refused.
C7_Witness ==
    /\ notaRes.called
    /\ notaRes.old.status = "autorizada"
    /\ notaRes.justificativa # Null
    /\ Len(notaRes.justificativa[1]) = 14
    /\ notaRes.err = ErrJustificativa
    /\ nota.status = "autorizada"

(***************************************************************************)
(* Properties of settlements.                                              *)
(***************************************************************************)
\* C8: registrarRecebimento of more than the remaining amount, computed right
\* before, throws and leaves every field of the entry as it was.
C8_OverpaymentRejected ==
    (contaRes.called /\ contaRes.valorRecebido > restante(contaRes.old))
        => /\ contaRes.err = ErrRecebimento
           /\ conta = contaRes.old

RECURSIVE SomaAceitos(_)
\* The sum of the amounts of the accepted requests among S.
SomaAceitos(S) ==
    IF S = {} THEN 0
    ELSE LET p == CHOOSE q \in S : TRUE
         IN (IF pc[p] = "accepted" THEN req[p] ELSE 0) + SomaAceitos(S \ {p})

\* C10: when the settlement requests on one entry overlap, once all have
\* returned the settled amount of the row is the sum of the accepted amounts
\* and does not exceed original + interest + penalty - discount.
C10_Serialized ==
    (\A p \in Requests : pc[p] \in {"accepted", "rejected"})
        => /\ row.valor_recebido = SomaAceitos(Requests)
           /\ SomaAceitos(Requests) <=
                  (row.valor_original + row.valor_juros + row.valor_multa)
                      - row.valor_desconto

(***************************************************************************)
(* Properties of concurrent stock debits.                                  *)
(***************************************************************************)
RECURSIVE SomaDebitos(_)
\* The sum of the quantities of the accepted debits among S.
SomaDebitos(S) ==
    IF S = {} THEN 0
    ELSE LET q == CHOOSE x \in S : TRUE
         IN (IF pcProduto[q] = "accepted" THEN reqProduto[q] ELSE 0)
                + SomaDebitos(S \ {q})

\* C11: when 'saida' requests on one product overlap, once all have returned
\* the stock of the row is the initial stock minus the sum of the accepted
\* debits, and it is never negative.
C11_DebitsSerialized ==
    /\ rowProduto.estoque_atual >= 0
    /\ (\A q \in Requests : pcProduto[q] \in {"accepted", "rejected"})
           => rowProduto.estoque_atual = estoqueInicial - SomaDebitos(Requests)

(***************************************************************************)
(* Properties of sale confirmation.                                        *)
(***************************************************************************)
\* The step is a call atualizarStatus('aprovada') on a pendente sale.
Confirma ==
    /\ venda.status = "pendente"
    /\ vendaRes' # vendaRes
    /\ vendaRes'.novoStatus = "aprovada"

\* Every item's quantity is within the stock of its product.
EstoqueSuficiente ==
    \A i \in DOMAIN itens :
        itens[i].quantidade <= estoques[itens[i].produto_id].estoque_atual

\* C12: confirming a sale debits the stock of each item's product by the item
\* quantity, and the status change and the debits happen together: when a
\* debit fails, the status and every stock are as before the call.
C12_ConfirmationDebitsStock ==
    [][ /\ (Confirma /\ EstoqueSuficiente) =>
              /\ venda'.status = "aprovada"
              /\ \A i \in DOMAIN itens :
                     estoques'[itens[i].produto_id].estoque_atual =
                         estoques[itens[i].produto_id].estoque_atual
                             - itens[i].quantidade
        /\ (Confirma /\ ~EstoqueSuficiente) =>
              /\ vendaRes'.err # NoError
              /\ venda' = venda
              /\ estoques' = estoques ]_vars


(***************************************************************************)
(* Properties of the access key.                                           *)
(***************************************************************************)
RECURSIVE SomaPonderada(_, _)
\* The sum of digit * weight over the k characters of base that end it, the
\* character j places before the last one (j = 0, 1, ...) weighing
\* 2 + (j mod 8): 2, 3, ..., 9, 2, 3, ...
SomaPonderada(base, k) ==
    IF k = 0 THEN 0
    ELSE base[Len(base) - (k - 1)] * (2 + ((k - 1) % 8))
             + SomaPonderada(base, k - 1)

Mod11(base) ==
    LET dv == 11 - (SomaPonderada(base, Len(base)) % 11)
    IN IF dv \in {10, 11} THEN 0 ELSE dv

C14_KeyLayout ==
    chaveRes.called =>
        LET chave == chaveRes.chave
        IN /\ Len(chave) = 44
           /\ Valor(SubSeq(chave, 1, 2)) = emissao.codigo_uf
           /\ Valor(SubSeq(chave, 3, 4)) = emissao.data_emissao.ano % 100
           /\ Valor(SubSeq(chave, 5, 6)) = emissao.data_emissao.mes
           /\ SubSeq(chave, 7, 20) = padStart(emissao.cnpj, 14)
           /\ SubSeq(chave, 21, 22) =
                  (IF emissao.tipo_documento = "nfe" THEN <<5, 5>> ELSE <<6, 5>>)
           /\ Valor(SubSeq(chave, 23, 25)) = emissao.serie
           /\ Valor(SubSeq(chave, 26, 34)) = emissao.numero
           /\ chave[35] = 1
           /\ Valor(SubSeq(chave, 36, 43)) = chaveRes.cNF


(***************************************************************************)
(* Properties of the creation of fiscal documents.                         *)
(***************************************************************************)
Rejeitado(p) ==
    /\ emitir[p].pc \in {"erro", "respondido"}
    /\ emitir[p].err = "SequelizeUniqueConstraintError"

\* C15: no two persisted documents share an access key, however the create
\* requests interleave; a request whose insert collided has inserted nothing
\* (the table holds exactly one row per request answered 201), is answered
\* with ConflictError, and never inserts afterwards (its response is never
\* 201).
C15_KeysUnique ==
    /\ \A i, j \in DOMAIN notas :
          (i # j /\ notas[i].chave_acesso # Null)
              => notas[i].chave_acesso # notas[j].chave_acesso
    /\ Len(notas) = Cardinality({p \in Requests : emitir[p].resposta.status = 201})
    /\ \A p \in Requests :
          /\ Rejeitado(p) => emitir[p].resposta.status # 201
          /\ (Rejeitado(p) /\ emitir[p].pc = "respondido")
                 => emitir[p].resposta = [status |-> 409, name |-> "ConflictError"]

\* Two requests carried the same key under different numbers: one document
\* is persisted, the other request was answered 409 ConflictError.
C15_Witness ==
    \E p, q \in Requests :
        /\ p # q
        /\ emitir[p].resposta.status = 201
        /\ emitir[q].resposta = [status |-> 409, name |-> "ConflictError"]
        /\ emitir[p].body.chave_acesso # Null
        /\ emitir[p].body.chave_acesso = emitir[q].body.chave_acesso
        /\ emitir[p].body.numero # emitir[q].body.numero
        /\ Len(notas) = 1


(***************************************************************************)
(* Properties of the totals of a sale.                                     *)
(***************************************************************************)
\* C16: in every state, so after every mutation, the stored grand total is
\* subtotal - discount + surcharge + freight, the discount being
\* subtotal * pct / 100 when pct > 0 and the absolute value otherwise, and the
\* surcharge likewise.
C16_TotalInvariant ==
    LET desconto == IF totais.desconto_percentual > 0
                    THEN (totais.subtotal * totais.desconto_percentual) \div 100
                    ELSE totais.desconto_valor
        acrescimo == IF totais.acrescimo_percentual > 0
                     THEN (totais.subtotal * totais.acrescimo_percentual) \div 100
                     ELSE totais.acrescimo_valor
    IN totais.valor_total = totais.subtotal - desconto + acrescimo + totais.valor_frete


(***************************************************************************)
(* Properties of the totals of a line item.                                *)
(***************************************************************************)
\* The total the line item should have: price * quantity, minus the
\* discount, plus the surcharge, a percentage above 0 taking precedence over
\* the absolute value.
TotalEsperado(i) ==
    LET subtotal == i.preco_unitario.n * i.quantidade.n
        desconto == IF i.desconto_percentual.n > 0
                    THEN (subtotal * i.desconto_percentual.n) \div 100
                    ELSE i.desconto_valor.n
        acrescimo == IF i.acrescimo_percentual.n > 0
                     THEN (subtotal * i.acrescimo_percentual.n) \div 100
                     ELSE i.acrescimo_valor.n
    IN subtotal - desconto + acrescimo

\* C17: calcularTotais returns and stores total = subtotal - discount +
\* surcharge, with subtotal = unit price * quantity and the percentage, when
\* above 0, winning over the absolute value for both.
C17_LineItemTotals ==
    itemRes.called =>
        /\ itemRes.ret.total.n = TotalEsperado(itemRes.old)
        /\ item.valor_total.n = TotalEsperado(itemRes.old)
        /\ itemRes.ret.subtotal.n =
               itemRes.old.preco_unitario.n * itemRes.old.quantidade.n

\* C18: when unit cost * quantity is 0, calcularTotais reports the margin as
\* null, in its result and on the line item.
C18_MarginOnZeroCost ==
    (itemRes.called /\ itemRes.old.custo_unitario.n * itemRes.old.quantidade.n = 0)
        => /\ itemRes.ret.margem_lucro.tipo = "null"
           /\ item.margem_lucro.tipo = "null"


(***************************************************************************)
(* Properties of the late charges.                                         *)
(***************************************************************************)
\* isOverdue(entry, asOf): the due date is before asOf and the entry is not
\* settled.
IsOverdue(c, asOf) == Instante(c.data_vencimento) < asOf /\ c.status # "recebido"

\* C19: calcularJurosMulta is a no-op (instance unchanged, zero interest and
\* penalty returned) unless the entry is overdue as of its dataBase argument,
\* whatever the time of the call.
C19_NoOpUnlessOverdue ==
    (jurosRes.called /\ ~IsOverdue(jurosRes.old, jurosRes.dataBase))
        => /\ jurosRes.nova = jurosRes.old
           /\ jurosRes.ret = [juros |-> 0, multa |-> 0]

\* C20: on an entry overdue as of dataBase the call stores the penalty
\* original * 0.02 and the interest original * 0.00033 * days late, whatever
\* was stored before, and a further call with the same dataBase leaves the
\* same interest and penalty.
C20_Recomputed ==
    (jurosRes.called /\ IsOverdue(jurosRes.old, jurosRes.dataBase))
        => /\ jurosRes.nova.valor_multa = (jurosRes.old.valor_original * 2) \div 100
           /\ jurosRes.nova.valor_juros =
                  (jurosRes.old.valor_original * 33
                      * ((jurosRes.dataBase - Instante(jurosRes.old.data_vencimento))
                            \div PorDia)) \div 100000
           /\ \A hoje \in jurosRes.hoje .. MaxTime :
                 LET again == calcularJurosMulta(jurosRes.nova, jurosRes.dataBase,
                                                 hoje).conta
                 IN /\ again.valor_multa = jurosRes.nova.valor_multa
                    /\ again.valor_juros = jurosRes.nova.valor_juros

(***************************************************************************)
(* Properties of the category hierarchy.                                   *)
(***************************************************************************)
Existentes == {c \in CategoriaIds : categorias[c].existe}

RECURSIVE Sobe(_, _)
\* The category reached from c by following categoria_pai_id k times (c
\* itself where the chain ends before).
Sobe(c, k) ==
    IF k = 0 \/ categorias[c].categoria_pai_id = Null THEN c
    ELSE Sobe(categorias[c].categoria_pai_id[1], k - 1)

\* The parent chain of c ends at a root: it contains no cycle.
SemCiclo(c) ==
    categorias[Sobe(c, Cardinality(CategoriaIds))].categoria_pai_id = Null

RECURSIVE NomesDesdeARaiz(_)
\* The names of the ancestors of c from the root down to c itself.
NomesDesdeARaiz(c) ==
    IF categorias[c].categoria_pai_id = Null THEN <<categorias[c].nome>>
    ELSE Append(NomesDesdeARaiz(categorias[c].categoria_pai_id[1]),
                categorias[c].nome)

\* C28: once a create or an update (a rename, a move) has returned, the
\* cached path of every category of an acyclic hierarchy, whatever its
\* status and depth, is the names of its ancestors from the root down to
\* itself.  (Every path is right before the first operation, and an operation
\* only affects the paths of its category and of the descendants, so this is
\* the claim at each operation.)
C28_PathCascade ==
    (categoriaRes.termina /\ \A c \in Existentes : SemCiclo(c))
        => \A c \in Existentes : categorias[c].caminho = NomesDesdeARaiz(c)

\* C30: every create and update returns, and the parent relation never
\* contains a cycle.
C30_PathTerminates ==
    /\ categoriaRes.termina
    /\ \A c \in Existentes : SemCiclo(c)


(***************************************************************************)
(* Properties of the recurrence of a receivable.                           *)
(***************************************************************************)
\* The last call of gerarProximaRecorrencia created entries.
Gerou == recRes.called /\ recRes.err = NoError

\* The entry the last call created.
Gerada == criadas[recRes.antes + 1]

\* Day d moved n months on: the same day of the month, or the last day of the
\* month when it has no such day.
MaisMeses(d, n) ==
    LET m == getMonth(d) + n
        dia == IF getDate(d) <= DiasNoMes(m) THEN getDate(d) ELSE DiasNoMes(m)
    IN InicioDoMes(m) + (dia - 1)

\* C21: a call of gerarProximaRecorrencia on a recurring entry creates exactly
\* one entry, due the periodicity's months (1, 2, 3, 6 or 12) after the
\* entry's due date, with nothing received, the original amount remaining,
\* status em_aberto, no receipt date, and every other field cloned.
C21_NextRecurrence ==
    Gerou =>
        /\ Len(criadas) = recRes.antes + 1
        /\ Gerada = [recRes.old EXCEPT
               !.data_vencimento =
                   MaisMeses(recRes.old.data_vencimento,
                             periodos(recRes.old.periodicidade[1])),
               !.valor_recebido = 0,
               !.valor_restante = recRes.old.valor_original,
               !.status = "em_aberto",
               !.data_recebimento = Null]

\* The recurrence of the last call's entry is not set: the flag or the
\* periodicity is missing.
SemRecorrencia == ~recRes.old.recorrente \/ recRes.old.periodicidade = Null

\* C22: gerarProximaRecorrencia fails with 'Conta nao e recorrente' exactly
\* when the entry's recurrence is not set (flag and periodicity), and then it
\* creates nothing and leaves the entry as it was.
C22_NotRecurring ==
    recRes.called =>
        /\ (recRes.err = ErrRecorrente) <=> SemRecorrencia
        /\ recRes.err \in {ErrRecorrente, NoError}
        /\ SemRecorrencia =>
               /\ Len(criadas) = recRes.antes
               /\ recRes.nova = recRes.old

\* A call on an entry flagged recurring with no periodicity, and one on an
\* entry with a periodicity and no flag, is rejected.
C22_Witness ==
    /\ recRes.called
    /\ recRes.err = ErrRecorrente
    /\ recRes.old.recorrente # (recRes.old.periodicidade # Null)


(***************************************************************************)
(* Properties of the ledger of a receivable.                               *)
(***************************************************************************)
\* The stored remaining amount of entry c is the one derived from its other
\* amounts.
RestanteDerivado(c) ==
    c.valor_restante =
        (((c.valor_original + c.valor_juros) + c.valor_multa)
            - c.valor_desconto) - c.valor_recebido

\* C24: after every operation of the ledger (registrarRecebimento,
\* calcularJurosMulta, gerarProximaRecorrencia), on the entry and on the
\* entries created from it, the stored remaining amount is original +
\* interest + penalty - discount - received.
C24_RemainingDerived ==
    /\ RestanteDerivado(conta)
    /\ \A i \in 1 .. Len(criadas) : RestanteDerivado(criadas[i])

\* The changes of status the ledger allows.
PassosDoLedger ==
    {<<"em_aberto", "parcialmente_recebido">>,
     <<"parcialmente_recebido", "recebido">>,
     <<"em_aberto", "recebido">>,
     <<"em_aberto", "cancelado">>,
     <<"parcialmente_recebido", "cancelado">>}

\* C25: the status only moves em_aberto -> parcialmente_recebido -> recebido
\* (or em_aberto -> recebido, or to cancelado from the first two), and once
\* the entry is recebido or cancelado no operation changes its status or its
\* received amount.
C25_TerminalStates ==
    [][/\ conta'.status # conta.status =>
              <<conta.status, conta'.status>> \in PassosDoLedger
       /\ conta.status \in {"recebido", "cancelado"} =>
              /\ conta'.status = conta.status
              /\ conta'.valor_recebido = conta.valor_recebido]_vars

\* C29: for an entry with a positive original amount, after any interleaving
\* of registrarRecebimento and calcularJurosMulta (with dataBase in any
\* order), original + interest + penalty - discount - received is not
\* negative.
C29_NoOverSettlement ==
    conta.valor_original > 0 => restante(conta) >= 0

====
